---------------------------- MODULE Spec2Model ----------------------------
(***************************************************************************)
(* Model of tools/generate_card_svgs.py: the SVG asset generator.          *)
(*                                                                         *)
(* A document is a record [width, height, elems]; elems is the sequence of *)
(* drawing elements in document order.  Every element carries the same     *)
(* fields (tag, x, y, w, h, size, fill, stroke, text, rot); a field an     *)
(* element does not have is 0, "" or NoRot.  Elements inside a             *)
(* <g transform="rotate(...)"> carry that transform in rot.  The suit      *)
(* glyphs are written by their code points ("U+2665" for the heart).       *)
(*                                                                         *)
(* The filesystem is dirs (the directories that exist, as paths relative   *)
(* to script_dir/..) and fs (file path -> document).  main is modelled     *)
(* step by step: one action per blocking filesystem call, together with    *)
(* the assignments and prints that follow it up to the next call.          *)
(***************************************************************************)
EXTENDS Integers, Sequences, FiniteSets, TLC

VARIABLES
    pc,           \* position of main
    si, ri, ci,   \* positions of the three loop iterators
    suit, rank,   \* loop variables of main ("" while unbound)
    filename,     \* local of main ("" while unbound)
    svg_content,  \* local of main (NoDoc while unbound)
    dirs, fs,     \* the filesystem
    out,          \* console output of the current process
    written,      \* history: <<[path, doc]>> written by the current run
    faulted,      \* history: the environment raised an I/O error in this run
    run,          \* number of the current invocation of main
    dirs0, fs0    \* history: the filesystem when the current run started

vars == <<pc, si, ri, ci, suit, rank, filename, svg_content, dirs, fs, out,
          written, faulted, run, dirs0, fs0>>

----------------------------------------------------------------------------
(* Bounds of the model *)

MaxRuns == 2

MaxPreexisting == 2

----------------------------------------------------------------------------
(* Module-level constants of the script *)

CARD_WIDTH == 140

CARD_HEIGHT == 190

CORNER_RADIUS == 10

RED == "#CC1111"

BLACK == "#111111"

WHITE == "#FFFFFF"

CARD_BACK_COLOR == "#2E4A7D"

CARD_BACK_PATTERN == "#3D5A8D"

HEART == "U+2665"

DIAMOND == "U+2666"

CLUB == "U+2663"

SPADE == "U+2660"

SUITS_reversed ==
    << <<"s", <<"Spades", BLACK, SPADE>> >>,
       <<"c", <<"Clubs", BLACK, CLUB>> >>,
       <<"d", <<"Diamonds", RED, DIAMOND>> >>,
       <<"h", <<"Hearts", RED, HEART>> >> >>

\* The dict SUITS, as its items in insertion order.
SUITS ==
    << <<"h", <<"Hearts", RED, HEART>> >>,
       <<"d", <<"Diamonds", RED, DIAMOND>> >>,
       <<"c", <<"Clubs", BLACK, CLUB>> >>,
       <<"s", <<"Spades", BLACK, SPADE>> >> >>

\* SUITS.keys(): the keys in insertion order.
SuitKeys == [i \in 1..Len(SUITS) |-> SUITS[i][1]]

\* SUITS[suit]
SuitLookup(s) == SUITS[CHOOSE i \in 1..Len(SUITS) : SUITS[i][1] = s][2]

RANKS == <<"2", "3", "4", "5", "6", "7", "8", "9", "T", "J", "Q", "K", "A">>

RANK_DISPLAY ==
    ("T" :> "10") @@ ("J" :> "J") @@ ("Q" :> "Q") @@ ("K" :> "K") @@
    ("A" :> "A") @@ ("2" :> "2") @@ ("3" :> "3") @@ ("4" :> "4") @@
    ("5" :> "5") @@ ("6" :> "6") @@ ("7" :> "7") @@ ("8" :> "8") @@
    ("9" :> "9")

----------------------------------------------------------------------------
(* Documents *)

NoRot == <<>>

El(tag, x, y, w, h, size, fill, stroke, text, rot) ==
    [tag |-> tag, x |-> x, y |-> y, w |-> w, h |-> h, size |-> size,
     fill |-> fill, stroke |-> stroke, text |-> text, rot |-> rot]

Doc(width, height, elems) ==
    [width |-> width, height |-> height, elems |-> elems]

\* No document: the value of svg_content before its first assignment.
NoDoc == Doc(0, 0, <<>>)

\* A file opened with 'w' whose write did not complete: truncated.
Truncated == Doc(0, 0, <<>>)

\* Content of a file that some earlier, unrelated process left behind.
StaleDoc == Doc(1, 1, <<>>)

generate_card_svg_raw_rank(rank_, suit_) ==
    LET color == SuitLookup(suit_)[2]
        symbol == SuitLookup(suit_)[3]
        rot == <<180, CARD_WIDTH \div 2, CARD_HEIGHT \div 2>>
    IN  Doc(CARD_WIDTH, CARD_HEIGHT,
            << El("rect", 1, 1, CARD_WIDTH - 2, CARD_HEIGHT - 2, CORNER_RADIUS,
                  WHITE, "#CCCCCC", "", NoRot),
               El("text", 8, 28, 0, 0, 22, color, "", rank_, NoRot),
               El("text", 10, 50, 0, 0, 20, color, "", symbol, NoRot),
               El("text", CARD_WIDTH \div 2, CARD_HEIGHT \div 2 + 20, 0, 0, 60,
                  color, "", symbol, NoRot),
               El("text", 8, 28, 0, 0, 22, color, "", rank_, rot),
               El("text", 10, 50, 0, 0, 20, color, "", symbol, rot) >>)

generate_card_svg(rank_, suit_) ==
    LET suit_name == SuitLookup(suit_)[1]
        color == SuitLookup(suit_)[2]
        symbol == SuitLookup(suit_)[3]
        rank_display == RANK_DISPLAY[rank_]
        rot == <<180, CARD_WIDTH \div 2, CARD_HEIGHT \div 2>>
    IN  Doc(CARD_WIDTH, CARD_HEIGHT,
            << El("rect", 1, 1, CARD_WIDTH - 2, CARD_HEIGHT - 2, CORNER_RADIUS,
                  WHITE, "#CCCCCC", "", NoRot),
               El("text", 8, 28, 0, 0, 22, color, "", rank_display, NoRot),
               El("text", 10, 50, 0, 0, 20, color, "", symbol, NoRot),
               El("text", CARD_WIDTH \div 2, CARD_HEIGHT \div 2 + 20, 0, 0, 60,
                  color, "", symbol, NoRot),
               El("text", 8, 28, 0, 0, 22, color, "", rank_display, rot),
               El("text", 10, 50, 0, 0, 20, color, "", symbol, rot) >>)

pattern_size == 10

generate_card_back_svg_ace ==
    Doc(CARD_WIDTH, CARD_HEIGHT,
        << El("text", CARD_WIDTH \div 2, CARD_HEIGHT \div 2 + 8, 0, 0, 24,
              WHITE, "", "A", NoRot) >>)

generate_card_back_svg ==
    Doc(CARD_WIDTH, CARD_HEIGHT,
        << El("pattern", 0, 0, pattern_size * 2, pattern_size * 2, 0,
              "", "", "", NoRot),
           El("rect", 0, 0, pattern_size, pattern_size, 0,
              CARD_BACK_COLOR, "", "", NoRot),
           El("rect", pattern_size, 0, pattern_size, pattern_size, 0,
              CARD_BACK_PATTERN, "", "", NoRot),
           El("rect", 0, pattern_size, pattern_size, pattern_size, 0,
              CARD_BACK_PATTERN, "", "", NoRot),
           El("rect", pattern_size, pattern_size, pattern_size, pattern_size, 0,
              CARD_BACK_COLOR, "", "", NoRot),
           El("rect", 1, 1, CARD_WIDTH - 2, CARD_HEIGHT - 2, CORNER_RADIUS,
              "url(#checker)", "", "", NoRot),
           El("rect", 1, 1, CARD_WIDTH - 2, CARD_HEIGHT - 2, CORNER_RADIUS,
              "none", WHITE, "", NoRot),
           El("rect", 8, 8, CARD_WIDTH - 16, CARD_HEIGHT - 16, 5,
              "none", WHITE, "", NoRot),
           El("circle", CARD_WIDTH \div 2, CARD_HEIGHT \div 2, 0, 0, 25,
              WHITE, "", "", NoRot),
           El("circle", CARD_WIDTH \div 2, CARD_HEIGHT \div 2, 0, 0, 20,
              CARD_BACK_COLOR, "", "", NoRot),
           El("text", CARD_WIDTH \div 2, CARD_HEIGHT \div 2 + 8, 0, 0, 24,
              WHITE, "", SPADE, NoRot) >>)

size == 80

generate_chip_svg(value, color, text_color) ==
    LET cx == size \div 2
        cy == size \div 2
        radius == size \div 2 - 2
    IN  Doc(size, size,
            << El("circle", cx, cy, 0, 0, radius, color, "", "", NoRot),
               El("circle", cx, cy, 0, 0, radius, "none", "#000000", "", NoRot),
               El("circle", cx, cy, 0, 0, radius - 5, "none", WHITE, "", NoRot),
               El("line", cx, 2, cx, 12, 0, "", WHITE, "", NoRot),
               El("line", cx, size - 2, cx, size - 12, 0, "", WHITE, "", NoRot),
               El("line", 2, cy, 12, cy, 0, "", WHITE, "", NoRot),
               El("line", size - 2, cy, size - 12, cy, 0, "", WHITE, "", NoRot),
               El("circle", cx, cy, 0, 0, 18, WHITE, "", "", NoRot),
               El("circle", cx, cy, 0, 0, 15, color, "", "", NoRot),
               El("text", cx, cy + 6, 0, 0, 14, text_color, "",
                  ToString(value), NoRot) >>)

----------------------------------------------------------------------------
(* Paths and the filesystem calls main makes *)

\* script_dir / "../client/Assets/Resources/Cards", relative to script_dir/..
cards_dir == <<"client", "Assets", "Resources", "Cards">>

chips_dir == <<"client", "Assets", "Resources", "Chips">>

\* dir / name
Join(dir, name) == Append(dir, name)

Parent(p) == SubSeq(p, 1, Len(p) - 1)

\* p and its ancestors below script_dir/.. (which always exists: it holds
\* the directory of the running script)
Prefixes(p) == {SubSeq(p, 1, k) : k \in 1..Len(p)}

Exists(p, d) == p = <<>> \/ p \in d

\* Path.mkdir(parents=parents, exist_ok=exist_ok) on the directories d
Mkdir(p, parents, exist_ok, d) ==
    IF p \in d THEN [ok |-> exist_ok, dirs |-> d]
    ELSE IF Exists(Parent(p), d) THEN [ok |-> TRUE, dirs |-> d \cup {p}]
    ELSE IF parents THEN [ok |-> TRUE, dirs |-> d \cup Prefixes(p)]
    ELSE [ok |-> FALSE, dirs |-> d]

EnsureDir_no_exist_ok(p, d) == Mkdir(p, TRUE, FALSE, d)

\* <dir>.mkdir(parents=True, exist_ok=True)
EnsureDir(p, d) == Mkdir(p, TRUE, TRUE, d)

WriteFile_append(p, content, f, d) ==
    IF ~Exists(Parent(p), d) THEN [ok |-> FALSE, fs |-> f]
    ELSE [ok |-> TRUE,
          fs |-> [q \in DOMAIN f \cup {p} |->
                    IF q # p THEN f[q]
                    ELSE IF p \in DOMAIN f
                         THEN Doc(content.width, content.height,
                                  f[p].elems \o content.elems)
                         ELSE content]]

\* with open(p, 'w', encoding='utf-8') as f: f.write(content)
\* creates the file or replaces its whole content; the directory must exist
WriteFile(p, content, f, d) ==
    IF ~Exists(Parent(p), d) THEN [ok |-> FALSE, fs |-> f]
    ELSE [ok |-> TRUE,
          fs |-> [q \in DOMAIN f \cup {p} |-> IF q = p THEN content ELSE f[q]]]

AfterIOError_retry(at) == at

\* main has no exception handler: an OSError raised at position `at`
\* propagates out of main and ends the process
AfterIOError(at) == "failed"

CardFilename_no_suit(rank_, suit_) == rank_ \o ".svg"

CardFilename_display(rank_, suit_) == RANK_DISPLAY[rank_] \o suit_ \o ".svg"

\* f"{rank}{suit}.svg"
CardFilename(rank_, suit_) == rank_ \o suit_ \o ".svg"

\* f"chip_{value}.svg"
ChipFilename(value) == "chip_" \o ToString(value) \o ".svg"

chips_extended ==
    << <<1, "#FFFFFF", BLACK>>, <<5, "#CC1111", WHITE>>,
       <<25, "#118811", WHITE>>, <<100, "#111111", WHITE>>,
       <<500, "#880088", WHITE>>, <<1000, "#FFD700", BLACK>>,
       <<5000, "#FF8800", WHITE>>, <<10000, "#00CCCC", BLACK>> >>

chips ==
    << <<1, "#FFFFFF", BLACK>>, <<5, "#CC1111", WHITE>>,
       <<25, "#118811", WHITE>>, <<100, "#111111", WHITE>>,
       <<500, "#880088", WHITE>>, <<1000, "#FFD700", BLACK>> >>

total_without_back == Len(SUITS) * Len(RANKS) + Len(chips)

\* total = len(SUITS) * len(RANKS) + 1 + len(chips)
total == Len(SUITS) * Len(RANKS) + 1 + Len(chips)

\* Path.absolute() prefixes the working directory and keeps ".."
SCRIPT_PARENT == "<script_dir>/.."

RECURSIVE Absolute(_)
Absolute(p) ==
    IF p = <<>> THEN SCRIPT_PARENT
    ELSE Absolute(Parent(p)) \o "/" \o p[Len(p)]

\* the prints that follow the last write
SummaryLines ==
    << "\nGenerated " \o ToString(total) \o " SVG files:",
       "  - " \o ToString(Len(SUITS) * Len(RANKS)) \o " card faces",
       "  - 1 card back",
       "  - " \o ToString(Len(chips)) \o " chips",
       "\nOutput directories:",
       "  Cards: " \o Absolute(cards_dir),
       "  Chips: " \o Absolute(chips_dir) >>

----------------------------------------------------------------------------
(* Initial states: main is started on a filesystem that holds any of the   *)
(* output directories (with their ancestors) and a few files left behind   *)
(* by earlier processes.                                                   *)

AllDirs == Prefixes(cards_dir) \cup Prefixes(chips_dir)

PreexistingCandidates ==
    { Join(cards_dir, "Th.svg"), Join(cards_dir, "card_back.svg"),
      Join(cards_dir, "notes.txt"), Join(chips_dir, "chip_5.svg") }

PrefixClosed(D) == \A p \in D : Prefixes(p) \subseteq D

Init ==
    /\ pc = "mkdir_cards"
    /\ si = 1 /\ ri = 1 /\ ci = 1
    /\ suit = "" /\ rank = "" /\ filename = ""
    /\ svg_content = NoDoc
    /\ \E D \in SUBSET AllDirs, S \in SUBSET PreexistingCandidates :
          /\ PrefixClosed(D)
          /\ Cardinality(S) <= MaxPreexisting
          /\ \A p \in S : Parent(p) \in D
          /\ dirs = D
          /\ fs = [p \in S |-> StaleDoc]
    /\ out = <<>>
    /\ written = <<>>
    /\ faulted = FALSE
    /\ run = 1
    /\ dirs0 = dirs
    /\ fs0 = fs

----------------------------------------------------------------------------
(* main *)

\* cards_dir.mkdir(parents=True, exist_ok=True)
MkdirCards ==
    /\ pc = "mkdir_cards"
    /\ LET r == EnsureDir(cards_dir, dirs)
       IN  /\ dirs' = r.dirs
           /\ pc' = IF r.ok THEN "mkdir_chips" ELSE AfterIOError(pc)
    /\ UNCHANGED <<si, ri, ci, suit, rank, filename, svg_content, fs, out,
                   written, faulted, run, dirs0, fs0>>

\* chips_dir.mkdir(parents=True, exist_ok=True); print("Generating card SVGs...")
MkdirChips ==
    /\ pc = "mkdir_chips"
    /\ LET r == EnsureDir(chips_dir, dirs)
       IN  /\ dirs' = r.dirs
           /\ pc' = IF r.ok THEN "faces" ELSE AfterIOError(pc)
           /\ out' = IF r.ok THEN Append(out, "Generating card SVGs...") ELSE out
    /\ UNCHANGED <<si, ri, ci, suit, rank, filename, svg_content, fs,
                   written, faulted, run, dirs0, fs0>>

\* the environment fails a mkdir (permissions, disk full): the ancestors
\* created before the failing level stay
MkdirFault ==
    /\ pc \in {"mkdir_cards", "mkdir_chips"}
    /\ LET p == IF pc = "mkdir_cards" THEN cards_dir ELSE chips_dir
       IN  \E k \in 0..(Len(p) - 1) :
              dirs' = dirs \cup {SubSeq(p, 1, j) : j \in 1..k}
    /\ faulted' = TRUE
    /\ pc' = AfterIOError(pc)
    /\ UNCHANGED <<si, ri, ci, suit, rank, filename, svg_content, fs, out,
                   written, run, dirs0, fs0>>

\* one iteration of the nested loops over SUITS.keys() and RANKS
WriteFace ==
    /\ pc = "faces"
    /\ LET s == SuitKeys[si]
           r == RANKS[ri]
           fn == CardFilename(r, s)
           doc == generate_card_svg(r, s)
           filepath == Join(cards_dir, fn)
           w == WriteFile(filepath, doc, fs, dirs)
       IN  /\ suit' = s /\ rank' = r /\ filename' = fn /\ svg_content' = doc
           /\ fs' = w.fs
           /\ IF w.ok
              THEN /\ written' = Append(written, [path |-> filepath, doc |-> doc])
                   /\ IF ri < Len(RANKS)
                      THEN /\ ri' = ri + 1 /\ si' = si /\ pc' = pc
                           /\ out' = Append(out, "  Created " \o fn)
                      ELSE IF si < Len(SuitKeys)
                      THEN /\ ri' = 1 /\ si' = si + 1 /\ pc' = pc
                           /\ out' = Append(out, "  Created " \o fn)
                      ELSE /\ ri' = ri /\ si' = si /\ pc' = "back"
                           /\ out' = out \o << "  Created " \o fn,
                                               "Generating card back..." >>
              ELSE /\ pc' = AfterIOError(pc)
                   /\ UNCHANGED <<written, ri, si, out>>
    /\ UNCHANGED <<ci, dirs, faulted, run, dirs0, fs0>>

\* the card back, then print("Generating chip SVGs...")
WriteBack ==
    /\ pc = "back"
    /\ LET doc == generate_card_back_svg
           filepath == Join(cards_dir, "card_back.svg")
           w == WriteFile(filepath, doc, fs, dirs)
       IN  /\ fs' = w.fs
           /\ IF w.ok
              THEN /\ written' = Append(written, [path |-> filepath, doc |-> doc])
                   /\ out' = out \o << "  Created card_back.svg",
                                       "Generating chip SVGs..." >>
                   /\ pc' = IF Len(chips) > 0 THEN "chips" ELSE "summary"
              ELSE /\ pc' = AfterIOError(pc)
                   /\ UNCHANGED <<written, out>>
    /\ UNCHANGED <<si, ri, ci, suit, rank, filename, svg_content, dirs,
                   faulted, run, dirs0, fs0>>

\* one iteration of the loop over chips
WriteChip ==
    /\ pc = "chips"
    /\ LET c == chips[ci]
           fn == ChipFilename(c[1])
           doc == generate_chip_svg(c[1], c[2], c[3])
           filepath == Join(chips_dir, fn)
           w == WriteFile(filepath, doc, fs, dirs)
       IN  /\ filename' = fn /\ svg_content' = doc
           /\ fs' = w.fs
           /\ IF w.ok
              THEN /\ written' = Append(written, [path |-> filepath, doc |-> doc])
                   /\ out' = Append(out, "  Created " \o fn)
                   /\ IF ci < Len(chips)
                      THEN ci' = ci + 1 /\ pc' = pc
                      ELSE ci' = ci /\ pc' = "summary"
              ELSE /\ pc' = AfterIOError(pc)
                   /\ UNCHANGED <<written, out, ci>>
    /\ UNCHANGED <<si, ri, suit, rank, dirs, faulted, run, dirs0, fs0>>

\* the file main is about to open at pc, and the locals bound before open
Target ==
    IF pc = "faces"
    THEN [path |-> Join(cards_dir, CardFilename(RANKS[ri], SuitKeys[si])),
          suit |-> SuitKeys[si], rank |-> RANKS[ri],
          filename |-> CardFilename(RANKS[ri], SuitKeys[si]),
          svg_content |-> generate_card_svg(RANKS[ri], SuitKeys[si])]
    ELSE IF pc = "back"
    THEN [path |-> Join(cards_dir, "card_back.svg"),
          suit |-> suit, rank |-> rank, filename |-> filename,
          svg_content |-> svg_content]
    ELSE [path |-> Join(chips_dir, ChipFilename(chips[ci][1])),
          suit |-> suit, rank |-> rank,
          filename |-> ChipFilename(chips[ci][1]),
          svg_content |-> generate_chip_svg(chips[ci][1], chips[ci][2],
                                            chips[ci][3])]

\* the environment fails a file write: open() raises and the file is
\* untouched ("open"), or open() has truncated the file and f.write raises
\* ("write")
WriteFault ==
    /\ pc \in {"faces", "back", "chips"}
    /\ \E mode \in {"open", "write"} :
          fs' = IF mode = "write" /\ Exists(Parent(Target.path), dirs)
                THEN [q \in DOMAIN fs \cup {Target.path} |->
                        IF q = Target.path THEN Truncated ELSE fs[q]]
                ELSE fs
    /\ suit' = Target.suit /\ rank' = Target.rank
    /\ filename' = Target.filename /\ svg_content' = Target.svg_content
    /\ faulted' = TRUE
    /\ pc' = AfterIOError(pc)
    /\ UNCHANGED <<si, ri, ci, dirs, out, written, run, dirs0, fs0>>

\* total = ...; the closing prints
Summary ==
    /\ pc = "summary"
    /\ out' = out \o SummaryLines
    /\ pc' = "done"
    /\ UNCHANGED <<si, ri, ci, suit, rank, filename, svg_content, dirs, fs,
                   written, faulted, run, dirs0, fs0>>

\* the script is invoked again after a complete run, on the filesystem
\* that run left
Rerun ==
    /\ pc = "done"
    /\ run < MaxRuns
    /\ pc' = "mkdir_cards"
    /\ si' = 1 /\ ri' = 1 /\ ci' = 1
    /\ suit' = "" /\ rank' = "" /\ filename' = ""
    /\ svg_content' = NoDoc
    /\ out' = <<>>
    /\ written' = <<>>
    /\ faulted' = FALSE
    /\ run' = run + 1
    /\ dirs0' = dirs
    /\ fs0' = fs
    /\ UNCHANGED <<dirs, fs>>

\* a step of main itself, as opposed to a failure the environment injects
Step == MkdirCards \/ MkdirChips \/ WriteFace \/ WriteBack \/ WriteChip \/ Summary

Next ==
    \/ MkdirCards
    \/ MkdirChips
    \/ MkdirFault
    \/ WriteFace
    \/ WriteBack
    \/ WriteChip
    \/ WriteFault
    \/ Summary
    \/ Rerun

Spec == Init /\ [][Next]_vars

----------------------------------------------------------------------------
(* What the properties below expect, spelled out independently of the      *)
(* definitions above                                                       *)

ExpSuitSeq == <<"h", "d", "c", "s">>

ExpRankSeq == <<"2", "3", "4", "5", "6", "7", "8", "9", "T", "J", "Q", "K", "A">>

ExpChipSeq == <<1, 5, 25, 100, 500, 1000>>

ExpRankDisplays ==
    {"2", "3", "4", "5", "6", "7", "8", "9", "10", "J", "Q", "K", "A"}

ExpGlyphs == {"U+2665", "U+2666", "U+2663", "U+2660"}

ExpCards == <<"client", "Assets", "Resources", "Cards">>

ExpChips == <<"client", "Assets", "Resources", "Chips">>

ExpBackPath == Append(ExpCards, "card_back.svg")

ExpFacePath(r, s) == Append(ExpCards, r \o s \o ".svg")

ExpChipPath(v) == Append(ExpChips, "chip_" \o ToString(v) \o ".svg")

Range(seq) == {seq[i] : i \in 1..Len(seq)}

ExpPaths ==
    {ExpFacePath(r, s) : r \in Range(ExpRankSeq), s \in Range(ExpSuitSeq)}
        \cup {ExpBackPath}
        \cup {ExpChipPath(v) : v \in Range(ExpChipSeq)}

\* the k-th file of a run, k in 1..59
ExpOrder(k) ==
    IF k <= 52
    THEN ExpFacePath(ExpRankSeq[((k - 1) % 13) + 1], ExpSuitSeq[((k - 1) \div 13) + 1])
    ELSE IF k = 53 THEN ExpBackPath
    ELSE ExpChipPath(ExpChipSeq[k - 53])

WrittenPaths == {written[i].path : i \in 1..Len(written)}

InDir(p, dir) == Len(p) = Len(dir) + 1 /\ SubSeq(p, 1, Len(dir)) = dir

Texts(doc) == {i \in 1..Len(doc.elems) : doc.elems[i].tag = "text"}

----------------------------------------------------------------------------
\* C1: a complete run that starts from an output root holding no file ends
\* with exactly 59 files, 53 under Cards and 6 under Chips; the 59 paths
\* the run wrote are pairwise distinct, so no write overwrote an earlier one.
C1_FileCount ==
    (pc = "done" /\ DOMAIN fs0 = {}) =>
        /\ Cardinality(DOMAIN fs) = 59
        /\ Cardinality({p \in DOMAIN fs : InDir(p, ExpCards)}) = 53
        /\ Cardinality({p \in DOMAIN fs : InDir(p, ExpChips)}) = 6
        /\ Len(written) = 59
        /\ \A i, j \in 1..Len(written) :
              i # j => written[i].path # written[j].path

C1_Witness ==
    /\ pc = "done" /\ run = 1 /\ DOMAIN fs0 = {} /\ dirs0 = {}
    /\ Cardinality(DOMAIN fs) = 59

\* C2: after a complete run the files written are exactly the 52
\* Cards/<rank><suit>.svg (rank code, not display string), Cards/card_back.svg
\* and the 6 Chips/chip_<value>.svg, and each holds the document rendered
\* for its own rank and suit, the card back, or its own chip definition.
C2_FilesAndContents ==
    pc = "done" =>
        /\ WrittenPaths = ExpPaths
        /\ \A r \in Range(ExpRankSeq), s \in Range(ExpSuitSeq) :
              /\ ExpFacePath(r, s) \in DOMAIN fs
              /\ fs[ExpFacePath(r, s)] = generate_card_svg(r, s)
        /\ ExpBackPath \in DOMAIN fs
        /\ fs[ExpBackPath] = generate_card_back_svg
        /\ \A v \in Range(ExpChipSeq) :
              /\ ExpChipPath(v) \in DOMAIN fs
              /\ \E i \in 1..Len(chips) :
                    /\ chips[i][1] = v
                    /\ fs[ExpChipPath(v)] =
                          generate_chip_svg(chips[i][1], chips[i][2], chips[i][3])

C2_Witness ==
    /\ pc = "done"
    /\ ExpFacePath("T", "h") \in DOMAIN fs
    /\ fs[ExpFacePath("T", "h")].elems[2].text = "10"
    /\ fs[ExpFacePath("T", "h")].elems[3].text = "U+2665"
    /\ ExpChipPath(1000) \in DOMAIN fs
    /\ fs[ExpChipPath(1000)].elems[10].text = "1000"

\* C3: a second complete run leaves the filesystem (the set of paths, the
\* content of each file, the directories) exactly as the first complete run
\* left it, whatever the output root held before the first run.
C3_Idempotent ==
    (pc = "done" /\ run > 1) => (fs = fs0 /\ dirs = dirs0)

C3_Witness ==
    /\ pc = "done" /\ run = 2
    /\ Append(ExpCards, "notes.txt") \in DOMAIN fs
    /\ Append(ExpCards, "Th.svg") \in DOMAIN fs
    /\ Len(written) = 59
    /\ fs = fs0

FaceOK(doc, r, s) ==
    LET disp == IF r = "T" THEN "10" ELSE r
        glyph == CASE s = "h" -> "U+2665" [] s = "d" -> "U+2666"
                   [] s = "c" -> "U+2663" [] s = "s" -> "U+2660"
        colour == IF s \in {"h", "d"} THEN "#CC1111" ELSE "#111111"
        e == doc.elems
        T == Texts(doc)
        Upright == {i \in T : e[i].rot = <<>>}
        Rotated == {i \in T : e[i].rot # <<>>}
    IN  /\ doc.width = 140 /\ doc.height = 190
        /\ \A i \in T : e[i].fill = colour /\ e[i].text \in {disp, glyph}
        /\ \A i \in Rotated : e[i].rot[1] = 180
        /\ Cardinality({i \in Upright : e[i].text = disp /\ e[i].x = 8 /\ e[i].y = 28}) = 1
        /\ Cardinality({i \in Upright : e[i].text = disp}) = 1
        /\ Cardinality({i \in Upright : e[i].text = glyph /\ e[i].x = 10 /\ e[i].y = 50}) = 1
        /\ Cardinality({i \in Rotated : e[i].text = disp}) = 1
        /\ Cardinality({i \in Rotated : e[i].text = glyph}) = 1

\* C4: whenever main holds the document it rendered for (rank, suit), that
\* document is 140 x 190, its texts carry the rank's display string (10 for
\* T) and the suit's glyph, all in the suit's colour, the rank/suit pair once
\* top-left and once in the group rotated by 180 degrees; and it is the
\* document the previous complete run wrote for the same rank and suit.
C4_CardFace ==
    (rank # "" /\ filename = rank \o suit \o ".svg") =>
        /\ rank \in Range(ExpRankSeq) /\ suit \in Range(ExpSuitSeq)
        /\ FaceOK(svg_content, rank, suit)
        /\ run > 1 => fs0[ExpFacePath(rank, suit)] = svg_content

C4_Witness ==
    /\ rank = "T" /\ suit = "s" /\ filename = "Ts.svg"
    /\ svg_content.elems[2].text = "10"
    /\ svg_content.elems[2].fill = "#111111"
    /\ svg_content.elems[3].text = "U+2660"
    /\ ExpFacePath("A", "h") \in WrittenPaths
    /\ fs[ExpFacePath("A", "h")].elems[2].text = "A"
    /\ fs[ExpFacePath("A", "h")].elems[2].fill = "#CC1111"

\* C5 as stated: no text of the card back document is a rank display string
\* or one of the four suit glyphs.
C5_NoCardText ==
    \A k \in 1..Len(written) :
        written[k].path = ExpBackPath =>
            \A i \in Texts(written[k].doc) :
                written[k].doc.elems[i].text \notin ExpRankDisplays \cup ExpGlyphs

\* C5 as amended: the card back document is the same on every call and
\* carries no rank display string; its only text is the fixed white spade
\* emblem at the centre, which depends on no rank or suit.
C5_BackConstant ==
    \A k \in 1..Len(written) :
        written[k].path = ExpBackPath =>
            LET doc == written[k].doc
            IN  /\ doc.width = 140 /\ doc.height = 190
                /\ Cardinality(Texts(doc)) = 1
                /\ \A i \in Texts(doc) :
                      /\ doc.elems[i].text = "U+2660"
                      /\ doc.elems[i].fill = "#FFFFFF"
                      /\ doc.elems[i].x = 70
                      /\ doc.elems[i].text \notin ExpRankDisplays
                /\ run > 1 => fs0[ExpBackPath] = doc

C5_Witness ==
    /\ run = 2 /\ ExpBackPath \in WrittenPaths
    /\ fs[ExpBackPath] = fs0[ExpBackPath]
    /\ \E i \in Texts(fs[ExpBackPath]) : fs[ExpBackPath].elems[i].text = "U+2660"

\* C6: once a directory creation or a file write has failed with an I/O
\* error the run is halted: main takes no further step (no later write, no
\* retry), every file written before the failure still holds what was
\* written (no rollback), and the summary has not been printed.
C6_FaultHalts ==
    faulted =>
        /\ pc = "failed"
        /\ ~ENABLED Next
        /\ Len(written) < 59
        /\ \A k \in 1..Len(written) :
              /\ written[k].path \in DOMAIN fs
              /\ fs[written[k].path] = written[k].doc
        /\ \A k \in 1..Len(out) : out[k] # "\nGenerated 59 SVG files:"

C6_Witness ==
    /\ faulted /\ pc = "failed"
    /\ Len(written) = 30
    /\ ExpOrder(31) \in DOMAIN fs
    /\ fs[ExpOrder(31)].elems = <<>>
    /\ fs[ExpOrder(30)].width = 140

\* C7: the run never fails on its own account, whatever directories exist
\* when it starts: once both mkdir calls are done the whole tree (the
\* missing ancestors, Cards and Chips) exists; directories and files that
\* existed before are still there, and until the first file write the
\* files are exactly as the run found them.
C7_DirsEnsured ==
    /\ pc = "failed" => faulted
    /\ pc \notin {"mkdir_cards", "mkdir_chips", "failed"} =>
          (Prefixes(ExpCards) \cup Prefixes(ExpChips)) \subseteq dirs
    /\ dirs0 \subseteq dirs
    /\ DOMAIN fs0 \subseteq DOMAIN fs
    /\ (pc \in {"mkdir_cards", "mkdir_chips", "faces"} /\ written = <<>>) => fs = fs0

C7_Witness ==
    /\ run = 1 /\ dirs0 = {} /\ pc = "faces" /\ written = <<>>
    /\ dirs = {<<"client">>, <<"client", "Assets">>,
               <<"client", "Assets", "Resources">>, ExpCards, ExpChips}

\* C8 as stated: one complete run is a workload of 61 output files.
C8_Workload61 ==
    pc = "done" => Cardinality(WrittenPaths) = 61

\* C8 as amended: one complete run is a workload of 59 output files, and a
\* run after a complete run writes the same 59 files: every file it writes
\* already held, when the run started, the document the run writes, and the
\* run adds no file.
C8_Workload59 ==
    pc = "done" =>
        /\ Cardinality(WrittenPaths) = 59
        /\ run > 1 =>
              /\ \A k \in 1..Len(written) :
                    /\ written[k].path \in DOMAIN fs0
                    /\ fs0[written[k].path] = written[k].doc
              /\ DOMAIN fs = DOMAIN fs0

C8_Witness ==
    /\ pc = "done" /\ run = 2
    /\ Cardinality(WrittenPaths) = 59
    /\ Cardinality(DOMAIN fs0) >= 59

\* C9: the files of a run are written in one fixed order (the 52 faces,
\* suits h, d, c, s and within a suit the ranks 2..9, T, J, Q, K, A; then
\* card_back.svg; then the chips 1, 5, 25, 100, 500, 1000), nothing is
\* written before both Cards and Chips exist, and a run that meets no I/O
\* error always has a next step until it is done, which it is after the
\* 59th write.
C9_Sequential ==
    /\ Len(written) <= 59
    /\ \A k \in 1..Len(written) : written[k].path = ExpOrder(k)
    /\ written # <<>> => (ExpCards \in dirs /\ ExpChips \in dirs)
    /\ pc \in {"mkdir_cards", "mkdir_chips"} => written = <<>>
    /\ pc = "done" => Len(written) = 59
    /\ Len(written) = 59 => pc \in {"summary", "done"}
    /\ (~faulted /\ pc # "done") => (pc # "failed" /\ ENABLED Step)

C9_Witness ==
    /\ pc = "done" /\ ~faulted
    /\ written[1].path = Append(ExpCards, "2h.svg")
    /\ written[14].path = Append(ExpCards, "2d.svg")
    /\ written[52].path = Append(ExpCards, "As.svg")
    /\ written[53].path = Append(ExpCards, "card_back.svg")
    /\ written[54].path = Append(ExpChips, "chip_1.svg")
    /\ written[59].path = Append(ExpChips, "chip_1000.svg")

ExpHeaders ==
    {"Generating card SVGs...", "Generating card back...", "Generating chip SVGs..."}

ExpTail ==
    {"  - 52 card faces", "  - 1 card back", "  - 6 chips", "\nOutput directories:",
     "  Cards: <script_dir>/../client/Assets/Resources/Cards",
     "  Chips: <script_dir>/../client/Assets/Resources/Chips"}

CreatedOf(line) ==
    \E i \in 1..Len(written) :
        line = "  Created " \o written[i].path[Len(written[i].path)]

ExpGenerated(n) == "\nGenerated " \o ToString(n) \o " SVG files:"

\* C10: every line of the console is a section header, a 'Created <name>'
\* line of a file this run has already written (at most one per file), or
\* part of the final summary; the summary appears only when the run is
\* done, with all 59 writes succeeded, and the total it reports is the
\* number of files the run has written.
C10_Progress ==
    /\ \A k \in 1..Len(out) :
          \/ out[k] \in ExpHeaders
          \/ CreatedOf(out[k])
          \/ /\ out[k] \in ExpTail \cup {ExpGenerated(Cardinality(WrittenPaths))}
             /\ pc = "done" /\ ~faulted /\ Len(written) = 59
    /\ \A k1, k2 \in 1..Len(out) :
          (k1 # k2 /\ out[k1] = out[k2]) => ~CreatedOf(out[k1])
    /\ pc = "done" => \E k \in 1..Len(out) :
                         out[k] = ExpGenerated(Cardinality(WrittenPaths))

C10_Witness ==
    /\ pc = "done"
    /\ Len(out) = 69
    /\ out[Len(out) - 6] = "\nGenerated 59 SVG files:"
    /\ out[10] = "  Created Th.svg"

=============================================================================
